---- MODULE Spec2Model ----
(***************************************************************************)
(* Happy Sandwich Orders: the menu catalog and the customer orders kept in *)
(* a relational store (app/models.py), the repository layer over them      *)
(* (app/crud.py), the request handlers (app/main.py) and the LINE notifier *)
(* (app/notifier.py).                                                      *)
(*                                                                         *)
(* Text is a sequence of one-character strings, so that the slug           *)
(* normalisation is computed character by character as the code does.      *)
(* An optional value is <<>> (None) or <<v>>.  A point in time is an       *)
(* integer: day * TicksPerDay + tick within the day.                       *)
(***************************************************************************)
EXTENDS Integers, Sequences, FiniteSets, TLC

VARIABLES
    menu,          \* rows of table MenuItem
    orders,        \* rows of table Order
    next_menu_id,  \* next value of the MenuItem.id sequence
    next_order_id, \* next value of the Order.id sequence
    access_key,    \* Settings.access_key, read once (lru_cache)
    started,       \* the startup hook has run at least once
    stalled,       \* create_menu_item requests between their slug lookup and their commit
    last           \* the last request served: operation, request, response

vars == <<menu, orders, next_menu_id, next_order_id, access_key, started, stalled, last>>

----------------------------------------------------------------------------
(* Bounds of the model *)

MaxMenuId == 3
MaxOrderId == 2
MaxStalled == 1
MaxTextLen == 3
MaxDay == 1
TicksPerDay == 2

----------------------------------------------------------------------------
(* Optional values *)

None == <<>>
Some(v) == <<v>>
IsNone(o) == o = <<>>
Get(o) == o[1]

----------------------------------------------------------------------------
(* Text *)

UpperChars == {"A", "B"}
LowerChars == {"a", "b", "e", "i", "m", "n", "t", "u"}
DigitChars == {"0", "1", "2", "3", "4", "5", "6", "7", "8", "9"}
SpaceChars == {" "}

\* str.lower(), one character
ToLowerChar(c) ==
    CASE c = "A" -> "a"
      [] c = "B" -> "b"
      [] OTHER -> c

\* str.lower()
ToLower(s) == [i \in 1..Len(s) |-> ToLowerChar(s[i])]

RECURSIVE LStrip(_, _)
LStrip(s, chars) ==
    IF s # <<>> /\ Head(s) \in chars THEN LStrip(Tail(s), chars) ELSE s

RECURSIVE RStrip(_, _)
RStrip(s, chars) ==
    IF s # <<>> /\ s[Len(s)] \in chars THEN RStrip(SubSeq(s, 1, Len(s) - 1), chars) ELSE s

\* str.strip() with no argument strips whitespace; str.strip("-") strips hyphens
StripChars(s, chars) == RStrip(LStrip(s, chars), chars)

\* the character class [a-zA-Z0-9]
IsAlnum(c) == c \in LowerChars \cup UpperChars \cup DigitChars

\* re.sub(r"[^a-zA-Z0-9]+", "-", s): every maximal run of other characters becomes one hyphen
RECURSIVE ReSub(_, _)
ReSub(s, inRun) ==
    IF s = <<>> THEN <<>>
    ELSE IF IsAlnum(Head(s)) THEN <<Head(s)>> \o ReSub(Tail(s), FALSE)
    ELSE IF inRun THEN ReSub(Tail(s), TRUE)
    ELSE <<"-">> \o ReSub(Tail(s), TRUE)

DigitOf(d) ==
    CASE d = 0 -> "0" [] d = 1 -> "1" [] d = 2 -> "2" [] d = 3 -> "3" [] d = 4 -> "4"
      [] d = 5 -> "5" [] d = 6 -> "6" [] d = 7 -> "7" [] d = 8 -> "8" [] d = 9 -> "9"

\* f"{suffix}" of a positive integer
RECURSIVE Decimal(_)
Decimal(n) ==
    IF n < 10 THEN <<DigitOf(n)>> ELSE Decimal(n \div 10) \o <<DigitOf(n % 10)>>

MenuItemText == <<"m", "e", "n", "u", "-", "i", "t", "e", "m">>

NormalizeSlugUnstripped(base) ==
    LET slug == ReSub(ToLower(StripChars(base, SpaceChars)), FALSE)
    IN  IF slug = <<>> THEN MenuItemText ELSE slug

\* crud.py:200-201
NormalizeSlug(base) ==
    LET slug == StripChars(ReSub(ToLower(StripChars(base, SpaceChars)), FALSE), {"-"})
    IN  IF slug = <<>> THEN MenuItemText ELSE slug

\* "x or y" on two texts, an empty text being falsy
OrText(a, b) == IF a # <<>> THEN a ELSE b

----------------------------------------------------------------------------
(* Configuration and the access guard *)

Secret == "s3cret"

\* Settings.access_key: unset, set to the empty text, or set to a secret
AccessKeys == {None, Some(""), Some(Secret)}

\* the X-Access-Key header of a request: missing, the secret, or something else
HeaderKeys == {None, Some(Secret), Some("wrong")}

\* main.py:39; a None or empty access_key is falsy
Truthy(o) == ~IsNone(o) /\ Get(o) # ""

verify_access_key_lenient(x_access_key) ==
    IF Truthy(access_key) /\ ~IsNone(x_access_key) /\ x_access_key # access_key THEN 401 ELSE 200

verify_access_key(x_access_key) ==
    IF Truthy(access_key) /\ x_access_key # access_key THEN 401 ELSE 200

----------------------------------------------------------------------------
(* Table MenuItem *)

DefaultPriority == 100

\* the starter catalog of app/menu_data.py, a list of slug, name and price: the
\* module is not among the sources, and one entry stands for its list
DEFAULT_MENU_ITEMS ==
    << [slug |-> <<"b">>, name |-> <<"B">>, default_price |-> 35] >>

\* select(MenuItem).where(MenuItem.slug == slug).first()
get_menu_item_by_slug(table, slug) ==
    LET found == {m \in table : m.slug = slug}
    IN  IF found = {} THEN None ELSE Some(CHOOSE m \in found : TRUE)

\* session.get(MenuItem, id)
get_menu_item(table, id) ==
    LET found == {m \in table : m.id = id}
    IN  IF found = {} THEN None ELSE Some(CHOOSE m \in found : TRUE)

\* the loop of _generate_unique_slug, from the given suffix on
RECURSIVE ProbeSlug(_, _, _, _)
ProbeSlug(table, slug, suffix, current_id) ==
    LET candidate == IF suffix = 1 THEN slug ELSE slug \o <<"-">> \o Decimal(suffix)
        existing == get_menu_item_by_slug(table, candidate)
    IN  IF IsNone(existing) \/ (~IsNone(current_id) /\ Get(existing).id = Get(current_id))
        THEN candidate
        ELSE ProbeSlug(table, slug, suffix + 1, current_id)

_generate_unique_slug(table, base, current_id) ==
    ProbeSlug(table, NormalizeSlug(base), 1, current_id)

\* the unique index on MenuItem.slug: may a row with this id carry this slug
SlugUniqueBroken(table, id, slug) == TRUE

SlugUnique(table, id, slug) == \A m \in table : m.id = id \/ m.slug # slug

\* INSERT of one row and commit
InsertMenuItem(table, row) ==
    IF SlugUnique(table, row.id, row.slug)
    THEN [ok |-> TRUE, table |-> table \cup {row}]
    ELSE [ok |-> FALSE, table |-> table]

\* UPDATE of the row with row.id and commit
CommitMenuItem(table, row) ==
    IF (\E m \in table : m.id = row.id) /\ SlugUnique(table, row.id, row.slug)
    THEN [ok |-> TRUE, table |-> {m \in table : m.id # row.id} \cup {row}]
    ELSE [ok |-> FALSE, table |-> table]

\* crud.create_menu_item up to session.add: the row to insert, its id still unset
NewMenuItem(table, data, now) ==
    [ slug |-> _generate_unique_slug(table, OrText(IF IsNone(data.slug) THEN <<>> ELSE Get(data.slug),
                                                  OrText(data.name, <<>>)), None),
      name |-> data.name,
      default_price |-> data.default_price,
      priority |-> DefaultPriority,
      is_active |-> IF IsNone(data.is_active) THEN TRUE ELSE Get(data.is_active),
      description |-> data.description,
      created_at |-> now,
      updated_at |-> now ]

WithId(item, id) == [f \in DOMAIN item \cup {"id"} |-> IF f = "id" THEN id ELSE item[f]]

\* crud.update_menu_item, lines 157-158: a supplied non-empty slug is made unique
ResolveUpdates(table, menu_item, updates) ==
    IF ~IsNone(updates.slug) /\ Get(updates.slug) # <<>>
    THEN [updates EXCEPT !.slug = Some(_generate_unique_slug(table, Get(updates.slug), Some(menu_item.id)))]
    ELSE updates

\* crud.update_menu_item, lines 159-163: every value that is not None is set
ApplyMenuUpdates(menu_item, updates, now) ==
    [f \in DOMAIN menu_item |->
        IF f = "updated_at" THEN now
        ELSE IF f \in DOMAIN updates /\ ~IsNone(updates[f])
             THEN (IF f = "description" THEN updates[f] ELSE Get(updates[f]))
        ELSE menu_item[f]]

in_use_never(order_table, menu_item) == 0

\* crud.delete_menu_item, lines 171-173: count of the orders that carry the slug
in_use(order_table, menu_item) ==
    Cardinality({o \in order_table : o.menu_item_id = menu_item.slug})

\* crud.ensure_default_menu_items, lines 185-195: the rows added, ids from first_id on
SeedRows(first_id, now) ==
    { [ id |-> first_id + i - 1,
        slug |-> DEFAULT_MENU_ITEMS[i].slug,
        name |-> DEFAULT_MENU_ITEMS[i].name,
        default_price |-> DEFAULT_MENU_ITEMS[i].default_price,
        priority |-> DefaultPriority,
        is_active |-> TRUE,
        description |-> None,
        created_at |-> now,
        updated_at |-> now ] : i \in 1..Len(DEFAULT_MENU_ITEMS) }

ensure_default_menu_items_unguarded(table, first_id, now) ==
    table \cup SeedRows(first_id, now)

\* crud.ensure_default_menu_items: the table after the call
ensure_default_menu_items(table, first_id, now) ==
    IF Cardinality(table) # 0 THEN table ELSE table \cup SeedRows(first_id, now)

----------------------------------------------------------------------------
(* Responses *)

NoRequest == [none |-> TRUE]

\* body: the id of the row returned, or the count of a bulk update
\* notified: what became of the notification sent for it, if one was sent
Response(key, op, status, req, body) ==
    [key |-> key, op |-> op, status |-> status, req |-> req, body |-> body, notified |-> "none"]

\* a request refused before its handler ran: nothing is written
Refuse(key, op, status, req) ==
    /\ last' = Response(key, op, status, req, None)
    /\ UNCHANGED <<menu, orders, next_menu_id, next_order_id, access_key, started, stalled>>

----------------------------------------------------------------------------
(* Startup *)

\* the process before its startup hook, over a new database
InitWith(keys) ==
    /\ menu = {}
    /\ orders = {}
    /\ next_menu_id = 1
    /\ next_order_id = 1
    /\ access_key \in keys
    /\ started = FALSE
    /\ stalled = {}
    /\ last = Response(None, "none", 0, NoRequest, None)

Init == InitWith(AccessKeys)

\* main.on_startup: init_db, then ensure_default_menu_items; also every later restart
on_startup(now) ==
    /\ next_menu_id + Len(DEFAULT_MENU_ITEMS) - 1 <= MaxMenuId \/ menu # {}
    /\ menu' = ensure_default_menu_items(menu, next_menu_id, now)
    /\ next_menu_id' = next_menu_id + Cardinality(menu' \ menu)
    /\ started' = TRUE
    /\ last' = Response(None, "on_startup", 0, NoRequest, None)
    /\ UNCHANGED <<orders, next_order_id, access_key, stalled>>

----------------------------------------------------------------------------
(* Menu handlers, main.py:83-126 *)

\* POST /menu-items, the whole handler
create_menu_item(key, payload, now) ==
    /\ started
    /\ next_menu_id <= MaxMenuId
    /\ IF verify_access_key(key) = 401 THEN Refuse(key, "create_menu_item", 401, payload)
       ELSE LET row == WithId(NewMenuItem(menu, payload, now), next_menu_id)
                res == InsertMenuItem(menu, row)
            IN  /\ menu' = res.table
                /\ next_menu_id' = next_menu_id + 1
                /\ last' = IF res.ok THEN Response(key, "create_menu_item", 201, payload, Some(row.id))
                           ELSE Response(key, "create_menu_item", 500, payload, None)
                /\ UNCHANGED <<orders, next_order_id, access_key, started, stalled>>

\* POST /menu-items of a concurrent request, up to the slug lookup
create_menu_item_lookup(key, payload, now) ==
    /\ started
    /\ Cardinality(stalled) < MaxStalled
    /\ verify_access_key(key) # 401
    /\ stalled' = stalled \cup {[key |-> key, payload |-> payload, item |-> NewMenuItem(menu, payload, now)]}
    /\ UNCHANGED <<menu, orders, next_menu_id, next_order_id, access_key, started, last>>

\* ... and its INSERT and commit
create_menu_item_commit(s) ==
    /\ s \in stalled
    /\ next_menu_id <= MaxMenuId
    /\ LET row == WithId(s.item, next_menu_id)
           res == InsertMenuItem(menu, row)
       IN  /\ menu' = res.table
           /\ next_menu_id' = next_menu_id + 1
           /\ stalled' = stalled \ {s}
           /\ last' = IF res.ok THEN Response(s.key, "create_menu_item", 201, s.payload, Some(row.id))
                      ELSE Response(s.key, "create_menu_item", 500, s.payload, None)
           /\ UNCHANGED <<orders, next_order_id, access_key, started>>

\* a rename that is carried over to the orders of the item
update_menu_item_cascading(key, menu_item_id, payload, now) ==
    /\ started
    /\ ~IsNone(get_menu_item(menu, menu_item_id))
    /\ verify_access_key(key) # 401
    /\ LET menu_item == Get(get_menu_item(menu, menu_item_id))
           row == ApplyMenuUpdates(menu_item, ResolveUpdates(menu, menu_item, payload), now)
       IN  /\ menu' = CommitMenuItem(menu, row).table
           /\ orders' = {IF o.menu_item_id = menu_item.slug
                         THEN [o EXCEPT !.menu_item_name = row.name] ELSE o : o \in orders}
           /\ last' = Response(key, "update_menu_item", 200,
                               [menu_item_id |-> menu_item_id, payload |-> payload], Some(row.id))
           /\ UNCHANGED <<next_menu_id, next_order_id, access_key, started, stalled>>

\* PUT /menu-items/{id}, the whole handler
update_menu_item(key, menu_item_id, payload, now) ==
    /\ started
    /\ LET req == [menu_item_id |-> menu_item_id, payload |-> payload]
           menu_item == get_menu_item(menu, menu_item_id)
       IN  IF verify_access_key(key) = 401 THEN Refuse(key, "update_menu_item", 401, req)
           ELSE IF IsNone(menu_item) THEN Refuse(key, "update_menu_item", 404, req)
           ELSE LET row == ApplyMenuUpdates(Get(menu_item),
                                            ResolveUpdates(menu, Get(menu_item), payload), now)
                    res == CommitMenuItem(menu, row)
                IN  /\ menu' = res.table
                    /\ last' = IF res.ok THEN Response(key, "update_menu_item", 200, req, Some(row.id))
                               ELSE Response(key, "update_menu_item", 500, req, None)
                    /\ UNCHANGED <<orders, next_menu_id, next_order_id, access_key, started, stalled>>

\* DELETE /menu-items/{id}, the whole handler
delete_menu_item(key, menu_item_id) ==
    /\ started
    /\ LET req == [menu_item_id |-> menu_item_id]
           menu_item == get_menu_item(menu, menu_item_id)
       IN  IF verify_access_key(key) = 401 THEN Refuse(key, "delete_menu_item", 401, req)
           ELSE IF IsNone(menu_item) THEN Refuse(key, "delete_menu_item", 404, req)
           ELSE IF in_use(orders, Get(menu_item)) # 0 THEN Refuse(key, "delete_menu_item", 400, req)
           ELSE /\ menu' = menu \ {Get(menu_item)}
                /\ last' = Response(key, "delete_menu_item", 204, req, None)
                /\ UNCHANGED <<orders, next_menu_id, next_order_id, access_key, started, stalled>>

----------------------------------------------------------------------------
(* Table Order and the order handlers, main.py:137-202 *)

\* OrderCreate.model_dump(): the defaults of schemas.OrderBase fill what was not sent
OrderCreateDump(payload) ==
    [payload EXCEPT
        !.quantity = IF IsNone(@) THEN 1 ELSE Get(@),
        !.price = IF IsNone(@) THEN 0 ELSE Get(@),
        !.is_paid = IF IsNone(@) THEN FALSE ELSE Get(@)]

\* main._resolve_menu_item: None stands for the 400 it raises
_resolve_menu_item(table, menu_item_id) ==
    IF menu_item_id = <<>> THEN None ELSE get_menu_item_by_slug(table, menu_item_id)

\* main.create_order, lines 146-147
OrderPriceStrict(price, default_price, quantity) ==
    IF price < 0 THEN default_price * quantity ELSE price

OrderPrice(price, default_price, quantity) ==
    IF price <= 0 THEN default_price * quantity ELSE price

\* main.create_order, lines 143-147, then crud.create_order: the row, its id still unset
NewOrder(order_dict, menu_meta, now) ==
    [ customer_name |-> order_dict.customer_name,
      menu_item_id |-> order_dict.menu_item_id,
      menu_item_name |-> menu_meta.name,
      quantity |-> order_dict.quantity,
      price |-> OrderPrice(order_dict.price, menu_meta.default_price, order_dict.quantity),
      note |-> order_dict.note,
      order_date |-> IF IsNone(order_dict.order_date) THEN now ELSE Get(order_dict.order_date),
      is_paid |-> order_dict.is_paid,
      created_at |-> now,
      updated_at |-> now ]

\* notifier._post_line: what the caller sees of one outbound call
Deliveries == {"ok", "timeout", "http_error", "transport_error"}

_post_line_propagating(delivery) == IF delivery = "ok" THEN "returned" ELSE "raised"

_post_line(delivery) == "returned"

\* the notifier called by create_order: one message through _post_line
notify_new_order(order, delivery) == _post_line(delivery)

\* POST /orders: the response and the table it leaves
create_order_result(table, key, payload, now, delivery) ==
    LET order_dict == OrderCreateDump(payload)
        menu_meta == _resolve_menu_item(menu, order_dict.menu_item_id)
        order == WithId(NewOrder(order_dict, Get(menu_meta), now), next_order_id)
    IN  IF verify_access_key(key) = 401 THEN [status |-> 401, body |-> None, table |-> table]
        ELSE IF IsNone(menu_meta) THEN [status |-> 400, body |-> None, table |-> table]
        ELSE IF notify_new_order(order, delivery) = "returned"
             THEN [status |-> 201, body |-> Some(order.id), table |-> table \cup {order}]
             ELSE [status |-> 500, body |-> None, table |-> table \cup {order}]

\* POST /orders, the whole handler
create_order(key, payload, now, delivery) ==
    /\ started
    /\ next_order_id <= MaxOrderId
    /\ LET res == create_order_result(orders, key, payload, now, delivery)
       IN  /\ orders' = res.table
           /\ next_order_id' = next_order_id + Cardinality(res.table \ orders)
           /\ last' = [Response(key, "create_order", res.status, payload, res.body)
                          EXCEPT !.notified = IF res.table = orders THEN "none" ELSE delivery]
           /\ UNCHANGED <<menu, next_menu_id, access_key, started, stalled>>

\* session.get(Order, id)
get_order(table, id) ==
    LET found == {o \in table : o.id = id}
    IN  IF found = {} THEN None ELSE Some(CHOOSE o \in found : TRUE)

\* main.update_order, lines 165-169: a new menu item brings its name and, unless a
\* positive price was sent, its price
ResolveOrderUpdates(updates, menu_meta, order) ==
    [updates EXCEPT
        !.menu_item_name = Some(menu_meta.name),
        !.price = IF IsNone(updates.price) \/ Get(updates.price) <= 0
                  THEN Some(menu_meta.default_price *
                            (IF IsNone(updates.quantity) THEN order.quantity ELSE Get(updates.quantity)))
                  ELSE updates.price]

\* a skip of every falsy value (if not value) instead of every None
ApplyOrderUpdatesTruthy(order, updates, now) ==
    [f \in DOMAIN order |->
        IF f = "updated_at" THEN now
        ELSE IF f \in DOMAIN updates /\ ~IsNone(updates[f])
                /\ ~(\/ f \in {"quantity", "price"} /\ Get(updates[f]) = 0
                     \/ f = "is_paid" /\ Get(updates[f]) = FALSE
                     \/ f \in {"menu_item_id", "menu_item_name", "note"} /\ Get(updates[f]) = <<>>
                     \/ f = "customer_name" /\ Get(updates[f]) = "")
             THEN (IF f = "note" THEN updates[f] ELSE Get(updates[f]))
        ELSE order[f]]

\* crud.update_order, lines 40-44
ApplyOrderUpdates(order, updates, now) ==
    [f \in DOMAIN order |->
        IF f = "updated_at" THEN now
        ELSE IF f \in DOMAIN updates /\ ~IsNone(updates[f])
             THEN (IF f = "note" THEN updates[f] ELSE Get(updates[f]))
        ELSE order[f]]

\* PUT /orders/{id}, the whole handler
update_order(key, order_id, payload, now) ==
    /\ started
    /\ LET req == [order_id |-> order_id, payload |-> payload]
           found == get_order(orders, order_id)
       IN  IF verify_access_key(key) = 401 THEN Refuse(key, "update_order", 401, req)
           ELSE IF IsNone(found) THEN Refuse(key, "update_order", 404, req)
           ELSE LET order == Get(found)
                    menu_meta == IF IsNone(payload.menu_item_id) THEN None
                                 ELSE _resolve_menu_item(menu, Get(payload.menu_item_id))
                IN  IF ~IsNone(payload.menu_item_id) /\ IsNone(menu_meta)
                    THEN Refuse(key, "update_order", 400, req)
                    ELSE LET updates == IF IsNone(payload.menu_item_id) THEN payload
                                        ELSE ResolveOrderUpdates(payload, Get(menu_meta), order)
                         IN  IF \A f \in DOMAIN updates : IsNone(updates[f])
                             THEN /\ last' = Response(key, "update_order", 200, req, Some(order.id))
                                  /\ UNCHANGED <<menu, orders, next_menu_id, next_order_id,
                                                 access_key, started, stalled>>
                             ELSE LET row == ApplyOrderUpdates(order, updates, now)
                                  IN  /\ orders' = (orders \ {order}) \cup {row}
                                      /\ last' = Response(key, "update_order", 200, req, Some(row.id))
                                      /\ UNCHANGED <<menu, next_menu_id, next_order_id,
                                                     access_key, started, stalled>>

\* DELETE /orders/{id}, the whole handler
delete_order(key, order_id) ==
    /\ started
    /\ LET req == [order_id |-> order_id]
           found == get_order(orders, order_id)
       IN  IF verify_access_key(key) = 401 THEN Refuse(key, "delete_order", 401, req)
           ELSE IF IsNone(found) THEN Refuse(key, "delete_order", 404, req)
           ELSE /\ orders' = orders \ {Get(found)}
                /\ last' = Response(key, "delete_order", 204, req, None)
                /\ UNCHANGED <<menu, next_menu_id, next_order_id, access_key, started, stalled>>

\* datetime.combine(date, time.min), main.py:194
combine_min(date) == date * TicksPerDay

combine_max_as_min(date) == date * TicksPerDay

\* datetime.combine(date, time.max), main.py:195
combine_max(date) == date * TicksPerDay + (TicksPerDay - 1)

\* crud.update_payment_status_by_date: the table after the update, and the count
update_payment_status_by_date(table, start_date, end_date, is_paid) ==
    LET hit == {o \in table : start_date <= o.order_date /\ o.order_date <= end_date}
    IN  [ table |-> {IF o \in hit THEN [o EXCEPT !.is_paid = is_paid] ELSE o : o \in table},
          updated |-> Cardinality(hit) ]

\* POST /orders/mark-paid, the whole handler
bulk_update_order_payment(key, payload) ==
    /\ started
    /\ IF verify_access_key(key) = 401 THEN Refuse(key, "bulk_update_order_payment", 401, payload)
       ELSE LET start_dt == combine_min(payload.start_date)
                end_dt == combine_max(payload.end_date)
                res == update_payment_status_by_date(orders, start_dt, end_dt, payload.is_paid)
            IN  /\ orders' = res.table
                /\ last' = Response(key, "bulk_update_order_payment", 200, payload,
                                    Some(res.updated))
                /\ UNCHANGED <<menu, next_menu_id, next_order_id, access_key, started, stalled>>

----------------------------------------------------------------------------
(* Reports, crud.py:56-89 *)

\* the characters of the model in code point order
CodePoints ==
    << " ", "!", "-", "0", "1", "2", "3", "4", "5", "6", "7", "8", "9", "?",
       "A", "B", "a", "b", "e", "i", "m", "n", "t", "u" >>

CharCode(c) == CHOOSE i \in 1..Len(CodePoints) : CodePoints[i] = c

\* ORDER BY on a text column: a <= b
RECURSIVE TextLeq(_, _)
TextLeq(a, b) ==
    IF a = <<>> THEN TRUE
    ELSE IF b = <<>> THEN FALSE
    ELSE IF Head(a) = Head(b) THEN TextLeq(Tail(a), Tail(b))
    ELSE CharCode(Head(a)) < CharCode(Head(b))

\* func.coalesce(func.sum(Order.quantity), 0) over a set of rows
RECURSIVE SumQuantity(_)
SumQuantity(rows) ==
    IF rows = {} THEN 0
    ELSE LET o == CHOOSE r \in rows : TRUE IN o.quantity + SumQuantity(rows \ {o})

\* the rows of breakdown_stmt, one for each (menu_item_id, menu_item_name) of the table
BreakdownRows(table) ==
    { [ menu_item_id |-> g[1],
        menu_item_name |-> g[2],
        total_quantity |->
            SumQuantity({o \in table : o.menu_item_id = g[1] /\ o.menu_item_name = g[2]}),
        unpaid_quantity |->
            SumQuantity({o \in table : o.menu_item_id = g[1] /\ o.menu_item_name = g[2] /\ ~o.is_paid}) ]
      : g \in {<<o.menu_item_id, o.menu_item_name>> : o \in table} }

\* sequences that list every row of a set once
RECURSIVE Listings(_)
Listings(rows) ==
    IF rows = {} THEN {<<>>}
    ELSE UNION {{<<r>> \o rest : rest \in Listings(rows \ {r})} : r \in rows}

\* ... in ORDER BY menu_item_name; rows of one name come in the order the store picks
Breakdown(table) ==
    CHOOSE l \in Listings(BreakdownRows(table)) :
        \A i \in 1..(Len(l) - 1) : TextLeq(l[i].menu_item_name, l[i + 1].menu_item_name)

compute_summary(table) ==
    [ total_orders |-> Cardinality(table),
      unpaid_orders |-> Cardinality({o \in table : o.is_paid = FALSE}),
      total_quantity |-> SumQuantity(table),
      menu_breakdown |-> Breakdown(table) ]

----------------------------------------------------------------------------
(* Input values *)

Days == 0..MaxDay
Times == 0..((MaxDay + 1) * TicksPerDay - 1)

MenuIds == 1..MaxMenuId
OrderIds == 1..MaxOrderId

Clock == {1}
NoKey == {None}

MenuCreate(names, slugs) ==
    [name : names, slug : slugs, default_price : {35}, is_active : {None}, description : {None}]

MenuUpdate(names, slugs) ==
    [name : names, slug : slugs, default_price : {None}, is_active : {None}, description : {None}]

OrderCreate(menu_item_ids, quantities, prices, order_dates, paid) ==
    [ customer_name : {"Ann"},
      menu_item_id : menu_item_ids,
      menu_item_name : {<<"?">>},
      quantity : quantities,
      price : prices,
      note : {None},
      order_date : order_dates,
      is_paid : paid ]

OrderUpdate(menu_item_ids, quantities, prices, paid) ==
    [ customer_name : {None},
      menu_item_id : menu_item_ids,
      menu_item_name : {None},
      quantity : quantities,
      price : prices,
      note : {None},
      order_date : {None},
      is_paid : paid ]

BulkUpdates == [start_date : Days, end_date : Days, is_paid : BOOLEAN]

----------------------------------------------------------------------------
(* The menu and the orders that refer to it *)

MenuMenuCreates == MenuCreate({<<"b", "!">>}, {None})
MenuOrderCreates == OrderCreate({<<"b">>, <<"b", "-", "2">>}, {None}, {None}, {None}, {None})

NextMenu ==
    \/ \E now \in Clock : on_startup(now)
    \/ \E payload \in MenuMenuCreates, now \in Clock : create_menu_item(None, payload, now)
    \/ \E id \in MenuIds : delete_menu_item(None, id)
    \/ \E payload \in MenuOrderCreates, now \in Clock : create_order(None, payload, now, "ok")
    \/ \E id \in OrderIds : delete_order(None, id)

SpecMenu == InitWith(NoKey) /\ [][NextMenu]_vars

----------------------------------------------------------------------------
(* Properties of the menu handlers *)

DbUnchanged == menu' = menu /\ orders' = orders

Referenced(m) == \E o \in orders : o.menu_item_id = m.slug

\* C2: deleting a menu item whose slug is the menu_item_id of a stored order is
\* answered 400 (not the 404 of a missing item) and changes neither table;
\* deleting an item no order refers to is answered 204 and removes that item only.
C2_DeleteMenuItem ==
    [][ last'.op = "delete_menu_item" /\ last'.status # 401 =>
          \A m \in menu : m.id = last'.req.menu_item_id =>
             IF Referenced(m)
             THEN last'.status = 400 /\ DbUnchanged
             ELSE last'.status = 204 /\ menu' = menu \ {m} /\ orders' = orders ]_vars

\* a delete was refused because an order still carries the slug of the item
C2_Witness ==
    /\ last.op = "delete_menu_item" /\ last.status = 400
    /\ \E m \in menu : m.id = last.req.menu_item_id /\ Referenced(m)

\* C8: update_menu_item, a rename included, leaves every stored order as it was,
\* so each order keeps the menu_item_name copied onto it when it was created.
C8_RenameKeepsOrders ==
    [][ last'.op = "update_menu_item" =>
          /\ orders' = orders
          /\ \A o \in orders : \E p \in orders' : p.id = o.id /\ p.menu_item_name = o.menu_item_name ]_vars

\* the item of a stored order was renamed, and the order still shows the old name
C8_Witness ==
    /\ last.op = "update_menu_item" /\ last.status = 200
    /\ \E m \in menu, o \in orders :
          /\ m.id = last.req.menu_item_id
          /\ ~IsNone(last.req.payload.name) /\ m.name = Get(last.req.payload.name)
          /\ o.menu_item_id = m.slug
          /\ o.menu_item_name # m.name

\* C9: the startup seeding writes the starter catalog only into an empty menu
\* table, changes nothing when a menu item exists, and a second call right after
\* a first one leaves the menu as the first one left it.
C9_SeedIdempotent ==
    [][ last'.op = "on_startup" =>
          /\ menu # {} => menu' = menu
          /\ menu = {} => \E now \in Clock : menu' = SeedRows(next_menu_id, now)
          /\ \A now \in Clock : ensure_default_menu_items(menu', next_menu_id', now) = menu' ]_vars

\* the service was started again over a menu that holds an item added by hand
C9_Witness ==
    /\ last.op = "on_startup"
    /\ \E m \in menu : m.id > Len(DEFAULT_MENU_ITEMS)
    /\ \E m \in menu : m.id = 1

----------------------------------------------------------------------------
(* The menu under concurrent requests: a request may stall between its slug    *)
(* lookup and its commit while other requests are served                       *)

RaceMenuCreates == MenuCreate({<<"b", "!">>}, {None})
RaceMenuUpdates == MenuUpdate({None}, {Some(<<>>), Some(<<"B">>)})

NextRace ==
    \/ \E now \in Clock : on_startup(now)
    \/ \E payload \in RaceMenuCreates, now \in Clock : create_menu_item(None, payload, now)
    \/ \E payload \in RaceMenuCreates, now \in Clock : create_menu_item_lookup(None, payload, now)
    \/ \E s \in stalled : create_menu_item_commit(s)
    \/ \E id \in MenuIds, payload \in RaceMenuUpdates, now \in Clock :
          update_menu_item(None, id, payload, now)
    \/ \E id \in MenuIds : delete_menu_item(None, id)

SpecRace == InitWith(NoKey) /\ [][NextRace]_vars

\* the text a new menu item's slug is made from, crud.py:138
SlugBase(payload) ==
    NormalizeSlug(OrText(IF IsNone(payload.slug) THEN <<>> ELSE Get(payload.slug), payload.name))

Suffixed(slug, base) ==
    \E n \in 2..(MaxMenuId + 1) : slug = base \o <<"-">> \o Decimal(n)

\* C1: no two stored menu items have the same slug, whatever the order of the
\* menu requests and of the lookups and commits of concurrent ones; and a menu
\* item created under a name whose normalised slug is already taken gets that
\* slug with a numeric suffix: its slug is the normalised text or that text
\* followed by a hyphen and a number from 2 on, and it is no other item's slug.
C1_SlugUnique ==
    /\ \A m1 \in menu, m2 \in menu : m1.slug = m2.slug => m1 = m2
    /\ last.op = "create_menu_item" /\ last.status = 201 =>
          \A m \in menu : m.id = Get(last.body) =>
             m.slug = SlugBase(last.req) \/ Suffixed(m.slug, SlugBase(last.req))

\* two menu items whose names normalise to the same slug, the later one suffixed
C1_Witness ==
    /\ last.op = "create_menu_item" /\ last.status = 201
    /\ \E m1 \in menu, m2 \in menu :
          /\ m2.id = Get(last.body) /\ m1.id < m2.id
          /\ NormalizeSlug(m1.name) = NormalizeSlug(m2.name)
          /\ m1.slug = NormalizeSlug(m1.name)
          /\ m2.slug = m1.slug \o <<"-", "2">>

\* a concurrent create lost the race for its slug and was refused by the unique index
C1_RaceRefused ==
    last.op = "create_menu_item" /\ last.status = 500

----------------------------------------------------------------------------
(* The service: every writing handler, under every configuration and header. *)
(* With three configurations and three headers for each request, one menu id  *)
(* and one order id fewer than the bounds are handed out.                      *)

AllMenuCreates == MenuCreate({<<"b", "!">>}, {None})
AllMenuUpdates == MenuUpdate({Some(<<"b", "!">>)}, {None})
AllOrderCreates == OrderCreate({<<"b">>}, {None}, {None}, {None}, {None})
AllOrderUpdates == OrderUpdate({None}, {None}, {None}, {Some(TRUE)})
AllBulkUpdates == [start_date : {0}, end_date : {0}, is_paid : {TRUE}]

Next ==
    \/ \E now \in Clock : on_startup(now)
    \/ \E key \in HeaderKeys, payload \in AllMenuCreates, now \in Clock :
          next_menu_id <= MaxMenuId - 1 /\ create_menu_item(key, payload, now)
    \/ \E key \in HeaderKeys, id \in MenuIds, payload \in AllMenuUpdates, now \in Clock :
          update_menu_item(key, id, payload, now)
    \/ \E key \in HeaderKeys, id \in MenuIds : delete_menu_item(key, id)
    \/ \E key \in HeaderKeys, payload \in AllOrderCreates, now \in Clock :
          next_order_id <= MaxOrderId - 1 /\ create_order(key, payload, now, "ok")
    \/ \E key \in HeaderKeys, id \in OrderIds, payload \in AllOrderUpdates, now \in Clock :
          update_order(key, id, payload, now)
    \/ \E key \in HeaderKeys, id \in OrderIds : delete_order(key, id)
    \/ \E key \in HeaderKeys, payload \in AllBulkUpdates : bulk_update_order_payment(key, payload)

Spec == Init /\ [][Next]_vars

WriteOps ==
    { "create_menu_item", "update_menu_item", "delete_menu_item",
      "create_order", "update_order", "delete_order", "bulk_update_order_payment" }

\* C7: with an access secret configured, a writing request whose X-Access-Key
\* header is missing or is not the secret is answered 401 and changes no menu
\* item and no order; with no secret configured (unset or empty) no request is
\* answered 401, whatever its header.
C7_AccessGuard ==
    [][ last'.op \in WriteOps =>
          IF Truthy(access_key)
          THEN IF last'.key = access_key THEN last'.status # 401
               ELSE last'.status = 401 /\ DbUnchanged
          ELSE last'.status # 401 ]_vars

\* a request without the header was refused while a secret is configured
C7_Witness ==
    /\ Truthy(access_key)
    /\ last.op \in WriteOps /\ last.status = 401 /\ IsNone(last.key)
    /\ orders # {}

----------------------------------------------------------------------------
(* Order creation: prices, quantities and the notification *)

PriceOrderCreates ==
    OrderCreate({<<"b">>, <<"a">>}, {None, Some(2)}, {None, Some(0), Some(-5), Some(50)},
                {None}, {None, Some(TRUE)})
PriceMenuUpdates == MenuUpdate({Some(<<"b", "!">>)}, {None})

NextPrice ==
    \/ \E now \in Clock : on_startup(now)
    \/ \E id \in MenuIds, payload \in PriceMenuUpdates, now \in Clock :
          update_menu_item(None, id, payload, now)
    \/ \E payload \in PriceOrderCreates, now \in Clock : create_order(None, payload, now, "ok")
    \/ \E id \in OrderIds : delete_order(None, id)

SpecPrice == InitWith(NoKey) /\ [][NextPrice]_vars

QuantitySent(payload) == IF IsNone(payload.quantity) THEN 1 ELSE Get(payload.quantity)

\* C3: an order created for an existing menu item with default price d and
\* quantity q is stored with price d * q when no price or a price <= 0 was sent
\* and with the price sent when that is > 0; it carries the current name of the
\* menu item, and is unpaid unless is_paid was sent.
C3_OrderPrice ==
    [][ last'.op = "create_order" =>
          \A m \in menu : m.slug = last'.req.menu_item_id =>
             /\ last'.status = 201
             /\ \E o \in orders' \ orders :
                   /\ orders' = orders \cup {o}
                   /\ o.id = Get(last'.body)
                   /\ o.price = IF IsNone(last'.req.price) \/ Get(last'.req.price) <= 0
                                THEN m.default_price * QuantitySent(last'.req)
                                ELSE Get(last'.req.price)
                   /\ o.menu_item_name = m.name
                   /\ o.is_paid = (IF IsNone(last'.req.is_paid) THEN FALSE ELSE Get(last'.req.is_paid)) ]_vars

\* two of a renamed item were ordered at price 0: stored at twice its default
\* price, under its new name
C3_Witness ==
    /\ last.op = "create_order" /\ last.status = 201
    /\ last.req.price = Some(0) /\ last.req.quantity = Some(2)
    /\ \E o \in orders, m \in menu :
          /\ o.id = Get(last.body) /\ m.slug = o.menu_item_id
          /\ m.name = <<"b", "!">> /\ o.menu_item_name = m.name
          /\ o.price = 2 * m.default_price /\ o.price > 0
          /\ ~o.is_paid

NotifyOrderCreates ==
    OrderCreate({<<"b">>, <<"a">>}, {None, Some(2)}, {None}, {None}, {None, Some(TRUE)})

NextNotify ==
    \/ \E now \in Clock : on_startup(now)
    \/ \E payload \in NotifyOrderCreates, now \in Clock, delivery \in Deliveries :
          create_order(None, payload, now, delivery)
    \/ \E id \in OrderIds : delete_order(None, id)

SpecNotify == InitWith(NoKey) /\ [][NextNotify]_vars

----------------------------------------------------------------------------
(* Bulk payment updates over orders of every date *)

DateOrderCreates ==
    OrderCreate({<<"b">>}, {None}, {None}, {None} \cup {Some(t) : t \in Times}, {None, Some(TRUE)})

NextDates ==
    \/ \E now \in Clock : on_startup(now)
    \/ \E payload \in DateOrderCreates, now \in Clock : create_order(None, payload, now, "ok")
    \/ \E id \in OrderIds : delete_order(None, id)
    \/ \E payload \in BulkUpdates : bulk_update_order_payment(None, payload)

SpecDates == InitWith(NoKey) /\ [][NextDates]_vars

\* the calendar day a point in time lies in
DayOf(t) == t \div TicksPerDay

InDays(o, payload) == DayOf(o.order_date) \in payload.start_date..payload.end_date

\* C4: the bulk update for the days start_date..end_date and flag f sets is_paid
\* to f on exactly the stored orders dated from the first instant of start_date
\* to the last instant of end_date, leaves every other order as it was, and
\* returns the number of orders in that range.
C4_BulkMarkPaid ==
    [][ last'.op = "bulk_update_order_payment" =>
          /\ last'.status = 200
          /\ orders' = { IF InDays(o, last'.req) THEN [o EXCEPT !.is_paid = last'.req.is_paid] ELSE o
                         : o \in orders }
          /\ Get(last'.body) = Cardinality({o \in orders : InDays(o, last'.req)}) ]_vars

\* one order on the last instant of the end day was marked paid, one of a later
\* day was left unpaid
C4_Witness ==
    /\ last.op = "bulk_update_order_payment" /\ last.req.is_paid /\ last.body = Some(1)
    /\ \E o \in orders : o.order_date = combine_max(last.req.end_date) /\ o.is_paid
    /\ \E o \in orders : DayOf(o.order_date) > last.req.end_date /\ ~o.is_paid

----------------------------------------------------------------------------
(* The summary report over orders of every quantity and payment state *)

SummaryOrderCreates ==
    OrderCreate({<<"b">>, <<"a">>}, {None, Some(2), Some(-1)}, {None}, {None}, {None, Some(TRUE)})
SummaryMenuUpdates == MenuUpdate({Some(<<"b", "!">>)}, {None})

NextSummary ==
    \/ \E now \in Clock : on_startup(now)
    \/ \E id \in MenuIds, payload \in SummaryMenuUpdates, now \in Clock :
          update_menu_item(None, id, payload, now)
    \/ \E payload \in SummaryOrderCreates, now \in Clock : create_order(None, payload, now, "ok")
    \/ \E id \in OrderIds : delete_order(None, id)

SpecSummary == InitWith(NoKey) /\ [][NextSummary]_vars

RECURSIVE SumTotals(_)
SumTotals(l) == IF l = <<>> THEN 0 ELSE Head(l).total_quantity + SumTotals(Tail(l))

\* the counts of the summary, and its total against its breakdown
C5_Counts ==
    LET s == compute_summary(orders)
    IN  /\ s.total_orders = Cardinality(orders)
        /\ s.unpaid_orders = Cardinality({o \in orders : ~o.is_paid})
        /\ s.total_quantity = SumTotals(s.menu_breakdown)
        /\ orders = {} => s.total_orders = 0 /\ s.unpaid_orders = 0 /\ s.total_quantity = 0
                          /\ s.menu_breakdown = <<>>

\* C5: compute_summary returns total_orders = the number of stored orders,
\* unpaid_orders = the number of unpaid ones, total_quantity = the sum of the
\* total_quantity of the breakdown entries, with unpaid_quantity <= total_quantity
\* in each entry; over no orders the counts are 0 and the breakdown is empty.
C5_Summary ==
    /\ C5_Counts
    /\ LET l == compute_summary(orders).menu_breakdown
       IN  \A i \in 1..Len(l) : l[i].unpaid_quantity <= l[i].total_quantity

----------------------------------------------------------------------------
(* The slug generator over every short text *)

Alphabet == {"a", "B", "2", "-", " ", "!"}

Texts == UNION {[1..n -> Alphabet] : n \in 0..MaxTextLen}

\* the menu after the startup seeding and one create_menu_item for each name
RECURSIVE MenuAfterCreates(_)
MenuAfterCreates(names) ==
    IF names = <<>> THEN ensure_default_menu_items({}, 1, 1)
    ELSE LET table == MenuAfterCreates(SubSeq(names, 1, Len(names) - 1))
             payload == [name |-> names[Len(names)], slug |-> None, default_price |-> 35,
                         is_active |-> None, description |-> None]
         IN  InsertMenuItem(table, WithId(NewMenuItem(table, payload, 1), Cardinality(table) + 1)).table

SlugMenuNames == << <<"B">>, <<"!">>, <<"!">> >>

SlugMenus == {MenuAfterCreates(SubSeq(SlugMenuNames, 1, n)) : n \in 0..Len(SlugMenuNames)}

SlugCreates == MenuCreate(Texts, {None}) \cup MenuCreate({<<"B">>}, {Some(t) : t \in Texts})
SlugUpdates == MenuUpdate({None}, {Some(t) : t \in Texts})

InitSlug ==
    /\ menu \in SlugMenus
    /\ orders = {}
    /\ next_menu_id = Cardinality(menu) + 1
    /\ next_order_id = 1
    /\ access_key = None
    /\ started = TRUE
    /\ stalled = {}
    /\ \/ \E payload \in SlugCreates : last = Response(None, "create_input", 0, payload, None)
       \/ \E payload \in SlugUpdates : last = Response(None, "update_input", 0, payload, None)

\* the slug create_menu_item gives the new item, crud.py:138-139
slug_for_create ==
    /\ last.op = "create_input"
    /\ last' = Response(None, "slug_for_create", 0, last.req, Some(NewMenuItem(menu, last.req, 1).slug))
    /\ UNCHANGED <<menu, orders, next_menu_id, next_order_id, access_key, started, stalled>>

\* the slug update_menu_item generates for an item, crud.py:157-158; None when it
\* does not call the generator
slug_for_update(menu_item) ==
    /\ last.op = "update_input"
    /\ menu_item \in menu
    /\ last' = Response(None, "slug_for_update", 0,
                        [menu_item_id |-> menu_item.id, payload |-> last.req],
                        IF Get(last.req.slug) = <<>> THEN None
                        ELSE ResolveUpdates(menu, menu_item, last.req).slug)
    /\ UNCHANGED <<menu, orders, next_menu_id, next_order_id, access_key, started, stalled>>

NextSlug ==
    \/ slug_for_create
    \/ \E menu_item \in menu : slug_for_update(menu_item)

SpecSlug == InitSlug /\ [][NextSlug]_vars

WellFormedSlug(slug) ==
    /\ slug # <<>>
    /\ \A i \in 1..Len(slug) : slug[i] \in LowerChars \cup DigitChars \cup {"-"}
    /\ slug[1] # "-"
    /\ slug[Len(slug)] # "-"

\* C10: for every name or slug text, the empty one, those without a letter or
\* digit and those that meet stored slugs included, the slug the generator
\* returns is not empty, is made of lowercase letters, digits and hyphens only,
\* and neither starts nor ends with a hyphen.
C10_SlugShape ==
    /\ last.op = "slug_for_create" => ~IsNone(last.body)
    /\ last.op \in {"slug_for_create", "slug_for_update"} /\ ~IsNone(last.body) =>
          WellFormedSlug(Get(last.body))

\* a name without a letter or digit, met by a stored slug: "menu-item-2"
C10_Witness ==
    /\ last.op = "slug_for_create"
    /\ last.req.name # <<>> /\ \A i \in 1..Len(last.req.name) : ~IsAlnum(last.req.name[i])
    /\ last.body = Some(MenuItemText \o <<"-", "2">>)

\* a slug text with a space, a capital and a hyphen at its end, generated for an update
C10_UpdateWitness ==
    /\ last.op = "slug_for_update"
    /\ last.req.payload.slug = Some(<<" ", "B", "-">>)
    /\ last.body = Some(<<"b">>)


----------------------------------------------------------------------------
(* Orders and the menu items their slugs name *)

RefsMenuCreates == MenuCreate({<<"a">>}, {None})
RefsMenuUpdates == MenuUpdate({None}, {Some(<<"a">>)})
RefsOrderCreates == OrderCreate({<<"b">>, <<"a">>}, {None}, {None}, {None}, {None})
RefsOrderUpdates == OrderUpdate({Some(<<"a">>)}, {None}, {None}, {None})

NextRefs ==
    \/ \E now \in Clock : on_startup(now)
    \/ \E payload \in RefsMenuCreates, now \in Clock : create_menu_item(None, payload, now)
    \/ \E id \in MenuIds, payload \in RefsMenuUpdates, now \in Clock :
           update_menu_item(None, id, payload, now)
    \/ \E id \in MenuIds : delete_menu_item(None, id)
    \/ \E payload \in RefsOrderCreates, now \in Clock : create_order(None, payload, now, "ok")
    \/ \E id \in OrderIds, payload \in RefsOrderUpdates, now \in Clock :
           update_order(None, id, payload, now)
    \/ \E id \in OrderIds : delete_order(None, id)

SpecRefs == InitWith(NoKey) /\ [][NextRefs]_vars

\* C11: in every reachable state, every stored order's menu_item_id is the slug
\* of some stored menu item: a slug that an order refers to is never removed
\* from the menu while that order exists.
C11_RefsResolve ==
    \A o \in orders : \E m \in menu : m.slug = o.menu_item_id


----------------------------------------------------------------------------
(* What an update of an order writes *)

\* an OrderUpdate in which no field was sent
NoUpdates ==
    [ customer_name |-> None, menu_item_id |-> None, menu_item_name |-> None, quantity |-> None,
      price |-> None, note |-> None, order_date |-> None, is_paid |-> None ]

FrameOrderUpdates ==
    { NoUpdates,
      [NoUpdates EXCEPT !.quantity = Some(0), !.is_paid = Some(FALSE)],
      [NoUpdates EXCEPT !.customer_name = Some("Bob"), !.menu_item_name = Some(<<"?">>),
                        !.note = Some(<<"n">>), !.order_date = Some(0), !.is_paid = Some(TRUE)],
      [NoUpdates EXCEPT !.menu_item_id = Some(<<"b">>)],
      [NoUpdates EXCEPT !.menu_item_id = Some(<<"b">>), !.quantity = Some(3), !.price = Some(50)],
      [NoUpdates EXCEPT !.menu_item_id = Some(<<"a">>), !.is_paid = Some(TRUE)],
      [NoUpdates EXCEPT !.menu_item_id = Some(<<>>), !.quantity = Some(3)] }

FrameOrderCreates == OrderCreate({<<"b">>}, {None}, {None}, {None}, {None})

\* the clock of the updates, after that of the creates
LaterClock == {2}

\* the ids the update requests name; orders of further ids stand by
FrameOrderIds == {1, 2}

NextFrame ==
    \/ \E now \in Clock : on_startup(now)
    \/ \E payload \in FrameOrderCreates, now \in Clock : create_order(None, payload, now, "ok")
    \/ \E id \in FrameOrderIds, payload \in FrameOrderUpdates, now \in LaterClock :
           update_order(None, id, payload, now)
    \/ \E id \in OrderIds : delete_order(None, id)

SpecFrame == InitWith(NoKey) /\ [][NextFrame]_vars

\* the fields of an order that a request can set and the handler does not derive
SentFields == {"customer_name", "menu_item_id", "quantity", "order_date", "is_paid"}

\* C12: update_order changes only the fields of the target order whose value in
\* the updates is not null, plus updated_at; a field that is absent or null in
\* the updates keeps its value, and every other order is unchanged. The updates
\* are those handed to crud.update_order: with a menu_item_id, the handler has
\* put the item's name and, unless a positive price was sent, its price into them.
C12_UpdateOrderFrame ==
    [][last'.op = "update_order" =>
        IF last'.status # 200 THEN DbUnchanged
        ELSE LET p == last'.req.payload
                 old == CHOOSE o \in orders : o.id = last'.req.order_id
                 new == CHOOSE o \in orders' : o.id = last'.req.order_id
                 item == CHOOSE m \in menu : m.slug = Get(p.menu_item_id)
             IN  /\ menu' = menu
                 /\ \E o \in orders : o.id = last'.req.order_id
                 /\ orders' \ {new} = orders \ {old}
                 /\ new.id = old.id /\ new.created_at = old.created_at
                 /\ new.updated_at \in {old.updated_at} \cup LaterClock
                 /\ \A f \in SentFields :
                        new[f] = IF IsNone(p[f]) THEN old[f] ELSE Get(p[f])
                 /\ new.note = IF IsNone(p.note) THEN old.note ELSE p.note
                 /\ IF IsNone(p.menu_item_id)
                    THEN /\ new.menu_item_name =
                                IF IsNone(p.menu_item_name) THEN old.menu_item_name
                                ELSE Get(p.menu_item_name)
                         /\ new.price = IF IsNone(p.price) THEN old.price ELSE Get(p.price)
                    ELSE /\ new.menu_item_name = item.name
                         /\ new.price = IF ~IsNone(p.price) /\ Get(p.price) > 0 THEN Get(p.price)
                                        ELSE item.default_price * new.quantity]_vars

\* an update that set a quantity of 0 and left the customer's name, next to another order
C12_Witness ==
    /\ last.op = "update_order" /\ last.status = 200
    /\ last.req.payload.quantity = Some(0)
    /\ IsNone(last.req.payload.customer_name)
    /\ Cardinality(orders) = 2
    /\ \E o \in orders :
           /\ o.id = last.req.order_id
           /\ o.quantity = 0 /\ o.is_paid = FALSE
           /\ o.customer_name = "Ann"
           /\ o.updated_at \in LaterClock /\ o.created_at \in Clock

\* an update that named a menu item: the orders carry the item's name and price
C12_DerivedWitness ==
    /\ last.op = "update_order" /\ last.status = 200
    /\ last.req.payload = [NoUpdates EXCEPT !.menu_item_id = Some(<<"b">>)]
    /\ \E o \in orders :
           /\ o.id = last.req.order_id
           /\ o.customer_name = "Bob"
           /\ o.menu_item_name = <<"B">> /\ o.quantity = 0 /\ o.price = 0


----------------------------------------------------------------------------
(* The orders of each menu item, crud.py:92-113 *)

\* ORDER BY menu_item_name, order_date, id: a comes before b
OrderBefore(a, b) ==
    IF a.menu_item_name # b.menu_item_name THEN TextLeq(a.menu_item_name, b.menu_item_name)
    ELSE IF a.order_date # b.order_date THEN a.order_date < b.order_date
    ELSE a.id < b.id

\* the rows of the statement of line 93
SortedOrders(table) ==
    CHOOSE l \in Listings(table) : \A i \in 1..(Len(l) - 1) : OrderBefore(l[i], l[i + 1])

\* position of the group of a menu_item_id, 0 when there is none yet
GroupOf(grouped, menu_item_id) ==
    IF \E i \in 1..Len(grouped) : grouped[i].menu_item_id = menu_item_id
    THEN CHOOSE i \in 1..Len(grouped) : grouped[i].menu_item_id = menu_item_id
    ELSE 0

\* the loop of lines 96-112 with the rows kept whole: setdefault opens a group at
\* the first row of a menu_item_id, in the order of the rows, and each row is appended
RECURSIVE GroupRows(_, _)
GroupRows(l, grouped) ==
    IF l = <<>> THEN grouped
    ELSE LET order == Head(l)
             i == GroupOf(grouped, order.menu_item_id)
         IN  IF i = 0
             THEN GroupRows(Tail(l),
                            Append(grouped, [ menu_item_id |-> order.menu_item_id,
                                              menu_item_name |-> order.menu_item_name,
                                              orders |-> <<order>> ]))
             ELSE GroupRows(Tail(l),
                            [grouped EXCEPT ![i].orders = Append(@, order)])

GroupedRows(table) == GroupRows(SortedOrders(table), <<>>)

\* what is listed of an order, lines 106-111
GroupedOrder(order) ==
    [ customer_name |-> order.customer_name,
      quantity |-> order.quantity,
      note |-> order.note,
      is_paid |-> order.is_paid ]

group_orders_by_menu(table) ==
    LET grouped == GroupedRows(table)
    IN  [ i \in 1..Len(grouped) |->
            [ menu_item_id |-> grouped[i].menu_item_id,
              menu_item_name |-> grouped[i].menu_item_name,
              orders |-> [ k \in 1..Len(grouped[i].orders) |->
                              GroupedOrder(grouped[i].orders[k]) ] ] ]

GroupMenuCreates == MenuCreate({<<"a">>}, {None})
GroupMenuUpdates == MenuUpdate({Some(<<"A">>)}, {None})
GroupOrderCreates == OrderCreate({<<"b">>, <<"a">>}, {None}, {None}, {None, Some(0)}, {None})

NextGroups ==
    \/ \E now \in Clock : on_startup(now)
    \/ \E payload \in GroupMenuCreates, now \in Clock : create_menu_item(None, payload, now)
    \/ \E id \in MenuIds, payload \in GroupMenuUpdates, now \in Clock :
           update_menu_item(None, id, payload, now)
    \/ \E payload \in GroupOrderCreates, now \in Clock : create_order(None, payload, now, "ok")
    \/ \E id \in OrderIds : delete_order(None, id)

SpecGroups == InitWith(NoKey) /\ [][NextGroups]_vars

\* one group for each menu_item_id of the orders, each order in the group of its id
OneGroupEach(grouped) ==
    /\ {grouped[i].menu_item_id : i \in 1..Len(grouped)} = {o.menu_item_id : o \in orders}
    /\ \A i, j \in 1..Len(grouped) : grouped[i].menu_item_id = grouped[j].menu_item_id => i = j
    /\ \A i \in 1..Len(grouped) :
           /\ {grouped[i].orders[k] : k \in 1..Len(grouped[i].orders)}
                  = {o \in orders : o.menu_item_id = grouped[i].menu_item_id}
           /\ Len(grouped[i].orders)
                  = Cardinality({o \in orders : o.menu_item_id = grouped[i].menu_item_id})

\* the groups come in ascending order of their menu_item_name
GroupsByName(grouped) ==
    \A i \in 1..(Len(grouped) - 1) :
        TextLeq(grouped[i].menu_item_name, grouped[i + 1].menu_item_name)

\* the orders of each group come in ascending order_date, then ascending id
OrdersByDate(grouped) ==
    \A i \in 1..Len(grouped) : \A k \in 1..(Len(grouped[i].orders) - 1) :
        LET a == grouped[i].orders[k]
            b == grouped[i].orders[k + 1]
        IN  a.order_date < b.order_date \/ (a.order_date = b.order_date /\ a.id < b.id)

\* C13: in every reachable state, also after a menu item was renamed between
\* two orders that refer to it, group_orders_by_menu returns exactly one group
\* for each referenced menu item, the groups in ascending order of menu item
\* name and, within each group, the orders in ascending order date, then id.
C13_GroupOrders ==
    LET grouped == GroupedRows(orders)
    IN  /\ Len(group_orders_by_menu(orders)) = Len(grouped)
        /\ OneGroupEach(grouped)
        /\ GroupsByName(grouped)
        /\ OrdersByDate(grouped)

\* what holds in every reachable state: the groups and their order
C13_Groups ==
    LET grouped == GroupedRows(orders)
    IN  /\ Len(group_orders_by_menu(orders)) = Len(grouped)
        /\ OneGroupEach(grouped)
        /\ GroupsByName(grouped)

====
